---- MODULE Spec2Model ----
(***************************************************************************)
(* The training loop of test_mlp (src/BackPropagation.py, lines 234-367):  *)
(* minibatch stochastic gradient descent with periodic validation, an      *)
(* adaptive patience window (early stopping) and selection of the best     *)
(* model by validation error.                                              *)
(*                                                                         *)
(* The numerical side (the layers, the gradients, the data) is abstracted: *)
(*   - the shared parameters are represented by `params`, the number of    *)
(*     updates train_model has applied to them (train_model is their only  *)
(*     writer, so the count identifies the snapshot);                      *)
(*   - a validation or test pass returns an error rate chosen              *)
(*     nondeterministically from a small set of levels, or nan when the    *)
(*     split has no batch (numpy.mean of an empty list).                   *)
(* Error rates are rationals k/400, written as the integer k; the          *)
(* comparison with improvement_threshold = 0.995 is made in exact          *)
(* arithmetic (this * 1000 < best * 995).  The levels 0, 199/400 and       *)
(* 200/400 are such that binary floating point gives the same answers:     *)
(* 0.5 * 0.995 is an exact scaling of 0.995, and 199/400 rounds to it.     *)
(***************************************************************************)
EXTENDS Integers, Sequences, FiniteSets, TLC

VARIABLES
    pc,                     \* position in test_mlp
    num_epochs,             \* argument num_epochs
    batch_size,             \* argument batch_size
    num_examples,           \* argument num_examples (the training split's size)
    num_train_batches,
    num_valid_batches,
    num_test_batches,
    patience,
    validation_frequency,
    best_validation_loss,
    best_iteration,
    test_score,
    epoch,
    done_looping,
    next_index,             \* position of the iterator of range(num_train_batches)
    minibatch_index,
    iteration,
    this_validation_loss,
    params,                 \* number of updates applied to classifier.params
    best_params,            \* params snapshot validate_model saw when it set best_validation_loss
    test_params,            \* params snapshot test_model saw when it set test_score
    num_checks,             \* validation checks made so far in the run
    checks_in_epoch,        \* validation checks made in the current pass over the training set
    result,                 \* the returned pair, <<>> before the return
    twin                    \* a second run of test_mlp, with its own test errors

vars == <<pc, num_epochs, batch_size, num_examples, num_train_batches,
          num_valid_batches, num_test_batches, patience, validation_frequency,
          best_validation_loss, best_iteration, test_score, epoch, done_looping,
          next_index, minibatch_index, iteration, this_validation_loss, params,
          best_params, test_params, num_checks, checks_in_epoch, result, twin>>

-----------------------------------------------------------------------------
(* Bounds of the model *)

\* the largest epoch budget tried
MaxEpochs == 62

\* epoch budgets tried
EpochChoices == {1, 2, MaxEpochs}

\* batch sizes tried: the default, and one larger than the validation split
BatchChoices == {20, 20000}

\* training-split sizes tried: 0, 1, 100 and 2500 batches of 20
ExampleChoices == {10, 20, 2000, 50000}

\* validation error rates a check may measure, in units of 1/400
ErrLevels == {0, 199, 200}

\* test error rates a test pass may measure, in units of 1/400
TestLevels == {40, 80}

-----------------------------------------------------------------------------
(* Program constants *)

ValidSetSize == 10000
TestSetSize == 10000
InitialPatience == 100
patience_increase == 2
ThresholdNum == 995
ThresholdDen == 1000

-----------------------------------------------------------------------------
(* Floating-point values: a finite number, +infinity or nan *)

Num(n) == [kind |-> "num", n |-> n]
Inf == [kind |-> "inf", n |-> 0]
NaN == [kind |-> "nan", n |-> 0]

\* a < b on Python floats: every comparison with nan is False
Less(a, b) ==
    /\ a.kind = "num"
    /\ \/ b.kind = "inf"
       \/ b.kind = "num" /\ a.n < b.n

\* a < b * improvement_threshold: inf * 0.995 is inf, nan * 0.995 is nan
LessScaled(a, b) ==
    /\ a.kind = "num"
    /\ \/ b.kind = "inf"
       \/ b.kind = "num" /\ a.n * ThresholdDen < b.n * ThresholdNum

\* numpy.mean of the per-batch errors: nan for an empty list
Mean(num_batches, level) == IF num_batches = 0 THEN NaN ELSE Num(level)

Max(a, b) == IF a >= b THEN a ELSE b
Min(a, b) == IF a <= b THEN a ELSE b

-----------------------------------------------------------------------------
(* The pieces of test_mlp, as functions of the state of one run *)

NumBatches(size, bsize) == size \div bsize

ValidationFrequency(ntb, pat) == Min(ntb, pat \div 2)

State ==
    [pc |-> pc, num_epochs |-> num_epochs, batch_size |-> batch_size,
     num_examples |-> num_examples, num_train_batches |-> num_train_batches,
     num_valid_batches |-> num_valid_batches, num_test_batches |-> num_test_batches,
     patience |-> patience, validation_frequency |-> validation_frequency,
     best_validation_loss |-> best_validation_loss, best_iteration |-> best_iteration,
     test_score |-> test_score, epoch |-> epoch, done_looping |-> done_looping,
     next_index |-> next_index, minibatch_index |-> minibatch_index,
     iteration |-> iteration, this_validation_loss |-> this_validation_loss,
     params |-> params, best_params |-> best_params, test_params |-> test_params,
     num_checks |-> num_checks, checks_in_epoch |-> checks_in_epoch,
     result |-> result]

SetState(s) ==
    /\ pc' = s.pc
    /\ num_epochs' = s.num_epochs
    /\ batch_size' = s.batch_size
    /\ num_examples' = s.num_examples
    /\ num_train_batches' = s.num_train_batches
    /\ num_valid_batches' = s.num_valid_batches
    /\ num_test_batches' = s.num_test_batches
    /\ patience' = s.patience
    /\ validation_frequency' = s.validation_frequency
    /\ best_validation_loss' = s.best_validation_loss
    /\ best_iteration' = s.best_iteration
    /\ test_score' = s.test_score
    /\ epoch' = s.epoch
    /\ done_looping' = s.done_looping
    /\ next_index' = s.next_index
    /\ minibatch_index' = s.minibatch_index
    /\ iteration' = s.iteration
    /\ this_validation_loss' = s.this_validation_loss
    /\ params' = s.params
    /\ best_params' = s.best_params
    /\ test_params' = s.test_params
    /\ num_checks' = s.num_checks
    /\ checks_in_epoch' = s.checks_in_epoch
    /\ result' = s.result

\* line 329
LoopContinues(s) == s.epoch < s.num_epochs /\ ~s.done_looping

\* lines 329-331: the while test, the epoch increment and the start of the for loop
WhileTest(s) ==
    IF LoopContinues(s)
    THEN [s EXCEPT !.epoch = @ + 1, !.next_index = 0, !.checks_in_epoch = 0,
                   !.pc = "for"]
    ELSE [s EXCEPT !.pc = "report"]

\* line 331: the for loop takes the next minibatch index, or ends the pass
ForNext(s) ==
    IF s.next_index < s.num_train_batches
    THEN [s EXCEPT !.minibatch_index = s.next_index, !.next_index = @ + 1,
                   !.pc = "train"]
    ELSE [s EXCEPT !.pc = "while"]

\* line 335
IterationNumber(s) == (s.epoch - 1) * s.num_train_batches + s.minibatch_index

\* lines 333-335: one update of the parameters
Train(s) ==
    [s EXCEPT !.params = @ + 1, !.iteration = IterationNumber(s),
              !.pc = "validate"]

\* line 337
ValidationDue(s) == (s.iteration + 1) % s.validation_frequency = 0

\* a slip of line 346: <= for <
IsImprovementOrEqual(this, best) == Less(this, best) \/ this = best

\* line 346
IsImprovement(this, best) == Less(this, best)

\* a slip of line 348: <= for <
IsSignificantOrEqual(this, best) ==
    \/ LessScaled(this, best)
    \/ /\ this.kind = "num"
       /\ best.kind = "num"
       /\ this.n * ThresholdDen = best.n * ThresholdNum

\* line 348
IsSignificant(this, best) == LessScaled(this, best)

\* a slip of line 349: the max with the old patience forgotten
NewPatienceNoMax(pat, it) == it * patience_increase

\* line 349
NewPatience(pat, it) == Max(pat, it * patience_increase)

\* a slip of lines 353-355: the test pass moved out of the `if`, run at every check
SelectModelTestEveryCheck(s, this, tst) ==
    IF IsImprovement(this, s.best_validation_loss)
    THEN [s EXCEPT !.patience = IF IsSignificant(this, s.best_validation_loss)
                                THEN NewPatience(@, s.iteration) ELSE @,
                   !.best_validation_loss = this,
                   !.best_iteration = s.iteration,
                   !.best_params = s.params,
                   !.test_score = tst,
                   !.test_params = s.params]
    ELSE [s EXCEPT !.test_score = tst, !.test_params = s.params]

\* a slip of line 346: a better test error also makes the model the best one
SelectModelByTest(s, this, tst) ==
    IF IsImprovement(this, s.best_validation_loss) \/ Less(tst, s.test_score)
    THEN [s EXCEPT !.patience = IF IsSignificant(this, s.best_validation_loss)
                                THEN NewPatience(@, s.iteration) ELSE @,
                   !.best_validation_loss = this,
                   !.best_iteration = s.iteration,
                   !.best_params = s.params,
                   !.test_score = tst,
                   !.test_params = s.params]
    ELSE s

\* lines 346-355, for a validation loss `this` and a test loss `tst`
SelectModel(s, this, tst) ==
    IF IsImprovement(this, s.best_validation_loss)
    THEN [s EXCEPT !.patience = IF IsSignificant(this, s.best_validation_loss)
                                THEN NewPatience(@, s.iteration) ELSE @,
                   !.best_validation_loss = this,
                   !.best_iteration = s.iteration,
                   !.best_params = s.params,
                   !.test_score = tst,
                   !.test_params = s.params]
    ELSE s

\* lines 338-358: a validation check measuring level v, and level t if it tests
Validate(s, v, t) ==
    LET this == Mean(s.num_valid_batches, v)
        tst == Mean(s.num_test_batches, t)
        checked == [s EXCEPT !.this_validation_loss = this,
                             !.num_checks = @ + 1,
                             !.checks_in_epoch = @ + 1]
    IN  [SelectModel(checked, this, tst) EXCEPT !.pc = "patience"]

\* line 337 when no check is due
NoValidation(s) == [s EXCEPT !.pc = "patience"]

\* a slip of line 359: < for <=
EarlyStopLate(pat, it) == pat < it

\* line 359
EarlyStop(pat, it) == pat <= it

\* lines 359-361
CheckPatience(s) ==
    IF EarlyStop(s.patience, s.iteration)
    THEN [s EXCEPT !.done_looping = TRUE, !.pc = "while"]
    ELSE [s EXCEPT !.pc = "for"]

\* lines 362-367
Return(s) ==
    [s EXCEPT !.result = <<s.best_validation_loss, s.test_score>>, !.pc = "done"]

\* whether the next step of a run is a validation check
AtCheck(s) == s.pc = "validate" /\ ValidationDue(s)

\* one step of a run that is not at a validation check
PlainStep(s) ==
    CASE s.pc = "while" -> WhileTest(s)
      [] s.pc = "for" -> ForNext(s)
      [] s.pc = "train" -> Train(s)
      [] s.pc = "validate" -> NoValidation(s)
      [] s.pc = "patience" -> CheckPatience(s)
      [] s.pc = "report" -> Return(s)
      [] OTHER -> s

-----------------------------------------------------------------------------
(* One run of test_mlp *)

\* the state after lines 248-327, whatever the arguments
Init ==
    /\ num_epochs \in EpochChoices
    /\ batch_size \in BatchChoices
    /\ num_examples \in ExampleChoices
    /\ num_train_batches = NumBatches(num_examples, batch_size)
    /\ num_valid_batches = NumBatches(ValidSetSize, batch_size)
    /\ num_test_batches = NumBatches(TestSetSize, batch_size)
    /\ patience = InitialPatience
    /\ validation_frequency = ValidationFrequency(num_train_batches, patience)
    /\ best_validation_loss = Inf
    /\ best_iteration = 0
    /\ test_score = Num(0)
    /\ epoch = 0
    /\ done_looping = FALSE
    /\ next_index = 0
    /\ minibatch_index = -1
    /\ iteration = -1
    /\ this_validation_loss = NaN
    /\ params = 0
    /\ best_params = 0
    /\ test_params = 0
    /\ num_checks = 0
    /\ checks_in_epoch = 0
    /\ result = <<>>
    /\ pc = "while"
    /\ twin = State

EpochLoopStep == pc = "while" /\ SetState(WhileTest(State))

MinibatchLoopStep == pc = "for" /\ SetState(ForNext(State))

TrainStep == pc = "train" /\ SetState(Train(State))

ValidationCheckStep(v, t) == AtCheck(State) /\ SetState(Validate(State, v, t))

SkipValidationStep ==
    pc = "validate" /\ ~AtCheck(State) /\ SetState(NoValidation(State))

PatienceCheckStep == pc = "patience" /\ SetState(CheckPatience(State))

ReportStep == pc = "report" /\ SetState(Return(State))

EpochLoop == EpochLoopStep /\ UNCHANGED twin

MinibatchLoop == MinibatchLoopStep /\ UNCHANGED twin

TrainModel == TrainStep /\ UNCHANGED twin

ValidationCheck ==
    \E v \in ErrLevels, t \in TestLevels :
        ValidationCheckStep(v, t) /\ UNCHANGED twin

SkipValidation == SkipValidationStep /\ UNCHANGED twin

PatienceCheck == PatienceCheckStep /\ UNCHANGED twin

Report == ReportStep /\ UNCHANGED twin

Next ==
    \/ EpochLoop
    \/ MinibatchLoop
    \/ TrainModel
    \/ ValidationCheck
    \/ SkipValidation
    \/ PatienceCheck
    \/ Report

Spec == Init /\ [][Next]_vars

\* test_mlp is one sequential thread: a step that can be taken is taken
FairSpec == Spec /\ WF_vars(Next)

-----------------------------------------------------------------------------
(* Two runs of test_mlp on the same arguments, the same parameters and the *)
(* same validation data, whose test passes measure what they like.  The    *)
(* runs advance together, so that a validation check of one and of the     *)
(* other, made on the same parameters, measures the same error.            *)

\* the second run's step while the first makes a validation check measuring v
TwinChecks(v) ==
    IF AtCheck(twin)
    THEN \E t \in TestLevels : twin' = Validate(twin, v, t)
    ELSE twin' = PlainStep(twin)

\* the second run's step while the first makes a step that measures nothing
TwinSteps ==
    IF AtCheck(twin)
    THEN \E v \in ErrLevels, t \in TestLevels : twin' = Validate(twin, v, t)
    ELSE twin' = PlainStep(twin)

PairEpochLoop == EpochLoopStep /\ TwinSteps

PairMinibatchLoop == MinibatchLoopStep /\ TwinSteps

PairTrainModel == TrainStep /\ TwinSteps

PairValidationCheck ==
    \E v \in ErrLevels, t \in TestLevels : ValidationCheckStep(v, t) /\ TwinChecks(v)

PairSkipValidation == SkipValidationStep /\ TwinSteps

PairPatienceCheck == PatienceCheckStep /\ TwinSteps

PairReport == ReportStep /\ TwinSteps

PairNext ==
    \/ PairEpochLoop
    \/ PairMinibatchLoop
    \/ PairTrainModel
    \/ PairValidationCheck
    \/ PairSkipValidation
    \/ PairPatienceCheck
    \/ PairReport

SpecPair == Init /\ [][PairNext]_vars

-----------------------------------------------------------------------------
(* Properties *)

\* this step is a validation check (lines 338-358)
CheckTaken == num_checks' = num_checks + 1

\* a <= b * improvement_threshold on floats
AtMostScaled(a, b) ==
    /\ a.kind = "num"
    /\ \/ b.kind = "inf"
       \/ b.kind = "num" /\ a.n * 1000 <= b.n * 995

\* a = b * improvement_threshold on floats
EqualsScaled(a, b) ==
    a.kind = "num" /\ b.kind = "num" /\ a.n * 1000 = b.n * 995

\* the run was stopped by the patience test, or its epoch budget is used up
\* after a complete pass
StopCondition ==
    \/ done_looping /\ iteration + 1 > patience
    \/ ~done_looping /\ epoch = num_epochs /\ next_index = num_train_batches

\* C1, as stated: with at least one epoch and one training batch, a run that has
\* stopped has global_iteration + 1 > patience or epoch > max_epochs.
C1_StopsPastEpochBudget ==
    (num_train_batches >= 1 /\ pc = "done") =>
        (iteration + 1 > patience \/ epoch > num_epochs)

\* C1, amended: with at least one epoch and one training batch the loop terminates;
\* it leaves the loop only with global_iteration + 1 > patience (tested after each
\* minibatch, the rest of the epoch abandoned) or with the epoch budget used up,
\* which is epoch = num_epochs after a complete pass (epoch never exceeds
\* num_epochs); and it trains no minibatch past either condition.
C1_Terminates ==
    /\ (num_train_batches >= 1) => <>(pc = "done")
    /\ [](num_train_batches >= 1 =>
            /\ epoch <= num_epochs
            /\ pc \in {"report", "done"} => StopCondition
            /\ pc = "train" => (iteration + 1 <= patience /\ ~done_looping))
    /\ [][(num_train_batches >= 1 /\ pc = "patience" /\ iteration + 1 > patience)
            => done_looping' /\ pc' = "while"]_vars
    /\ [][(num_train_batches >= 1 /\ pc = "while"
            /\ (done_looping \/ epoch = num_epochs)) => pc' = "report"]_vars

\* a run ended by its epoch budget, the patience not yet reached
C1_Witness ==
    /\ pc = "done"
    /\ num_train_batches >= 1
    /\ ~done_looping
    /\ epoch = num_epochs
    /\ iteration + 1 <= patience
    /\ num_checks >= 1

\* C2: once the validation error has improved, test_score is the test error of
\* the parameters as they were right after update number best_iteration, the
\* snapshot whose validation error is best_validation_loss, and the returned
\* pair is (best_validation_loss, test_score).
C2_TestScoreOfBestSnapshot ==
    /\ best_validation_loss # Inf =>
          /\ test_params = best_iteration + 1
          /\ best_params = best_iteration + 1
          /\ test_params <= params
    /\ pc = "done" => result = <<best_validation_loss, test_score>>

\* a finished run whose parameters were updated after its best snapshot
C2_Witness ==
    /\ pc = "done"
    /\ best_validation_loss # Inf
    /\ params > best_iteration + 1
    /\ num_checks >= 2

\* C3: a run in which a split has no batch fails before any training step: it
\* starts no epoch, trains nothing and returns nothing.
C3_ZeroBatchesFailFast ==
    (num_train_batches = 0 \/ num_valid_batches = 0 \/ num_test_batches = 0) =>
        (epoch = 0 /\ params = 0 /\ pc # "done")

\* C4: patience starts at 100; it changes only at a validation check whose error
\* is strictly below best_validation_loss * 0.995, where it becomes
\* max(patience, 2 * iteration); so it never decreases.
C4_PatienceRule ==
    /\ patience = 100
    /\ [][IF CheckTaken /\ LessScaled(this_validation_loss', best_validation_loss)
          THEN patience' = Max(patience, 2 * iteration)
          ELSE patience' = patience]_vars
    /\ [][patience' >= patience]_vars
    /\ [](patience >= 100)

\* a significant improvement at iteration 60 has made the patience 120
C4_Witness ==
    /\ pc = "patience"
    /\ iteration = 60
    /\ best_iteration = 60
    /\ patience = 120

\* C5: best_validation_loss never increases; it is assigned only at a validation
\* check whose error is strictly less than it, and is then that error, and
\* best_iteration that check's iteration; no other step changes either.
C5_BestLossRule ==
    /\ [][IF CheckTaken /\ Less(this_validation_loss', best_validation_loss)
          THEN /\ best_validation_loss' = this_validation_loss'
               /\ best_iteration' = iteration
          ELSE UNCHANGED <<best_validation_loss, best_iteration>>]_vars
    /\ [][best_validation_loss' = best_validation_loss
            \/ Less(best_validation_loss', best_validation_loss)]_vars

\* a later check has improved on an earlier best
C5_Witness ==
    /\ pc = "patience"
    /\ num_checks >= 2
    /\ best_iteration = iteration
    /\ best_validation_loss = Num(199)
    /\ this_validation_loss = Num(199)

\* C6: once a run has made a validation check, best_validation_loss is no longer
\* +infinity and test_score has been measured: the first check sets both.
C6_FirstCheckSetsBest ==
    num_checks >= 1 => (best_validation_loss # Inf /\ test_params >= 1)

\* the state of a run but for the test error it measured
Control(s) ==
    [s EXCEPT !.test_score = Num(0),
              !.result = IF s.result = <<>> THEN <<>> ELSE <<s.result[1]>>]

\* C7: the test split is evaluated only at a validation check whose error is
\* strictly less than the best one, and two runs that differ only in the test
\* errors measured agree, step by step, on everything but test_score (the same
\* best_validation_loss, best_iteration and patience, the same stop).
C7_TestNeverSelects ==
    /\ [](Control(State) = Control(twin))
    /\ [][test_params' # test_params =>
            CheckTaken /\ Less(this_validation_loss', best_validation_loss)]_vars

\* two finished runs that measured different test errors at their best snapshot
C7_Witness ==
    /\ pc = "done"
    /\ twin.pc = "done"
    /\ num_checks >= 2
    /\ best_iteration > 0
    /\ test_score # twin.test_score

\* C8, as stated: a validation error less than or equal to 0.995 times the best
\* one makes the patience max(patience, 2 * iteration).
C8_SignificantAtBoundary ==
    [][(CheckTaken /\ AtMostScaled(this_validation_loss', best_validation_loss))
          => patience' = Max(patience, 2 * iteration)]_vars

\* C8, amended: a validation error strictly less than 0.995 times the best one
\* makes the patience max(patience, 2 * iteration); one equal to 0.995 times the
\* best one leaves the patience as it is.
C8_SignificantStrictly ==
    [][(CheckTaken /\ AtMostScaled(this_validation_loss', best_validation_loss))
          => patience' = IF EqualsScaled(this_validation_loss', best_validation_loss)
                         THEN patience
                         ELSE Max(patience, 2 * iteration)]_vars

\* a check has measured 199/400 against a best of 200/400, past iteration 50,
\* and the patience is less than twice the iteration
C8_Witness ==
    /\ pc = "patience"
    /\ this_validation_loss = Num(199)
    /\ best_validation_loss = Num(199)
    /\ best_iteration = iteration
    /\ 2 * iteration > patience

\* C9: with at least one training batch, every complete pass over the training
\* minibatches contains exactly one validation check.
C9_OneCheckPerEpoch ==
    (num_train_batches >= 1 /\ pc = "while" /\ epoch >= 1 /\ ~done_looping) =>
        checks_in_epoch = 1

\* C10: when the early-stopping trigger has fired, the iteration equals the
\* patience, patience + 1 updates have been applied, and these are at least 101.
C10_StopsAtPatience ==
    done_looping =>
        /\ iteration = patience
        /\ params = patience + 1
        /\ params >= 101

\* early stopping has fired on an extended patience
C10_Witness ==
    /\ done_looping
    /\ patience > 100

====
